---- MODULE Spec2Model ----
(***************************************************************************)
(* TorchPolicyGraph (python/ray/rllib/evaluation/torch_policy_graph.py):   *)
(* one policy object shared by a sampling thread and a learning thread.    *)
(*                                                                         *)
(* Tensors and numpy arrays are references to buffers of a heap, so that   *)
(* "copy" and "view" are different things: on the CPU device .cpu(),       *)
(* .to(device), .numpy() and torch.from_numpy() all return views of the    *)
(* buffer they are given, on the CUDA device .cpu() and .to(device) copy.  *)
(* A number stands for the whole content of one array.                     *)
(***************************************************************************)
EXTENDS Integers, Sequences, FiniteSets, TLC

\* ------------------------------------------------------------------ bounds
MaxCalls == 3       \* calls of the training and weight operations in a run
MaxLiveCalls == 2   \* the same, in the runs checked for progress

\* --------------------------------------------------------------- constants
\* The model's parameter tensors, in parameters() / state_dict() order.
ParamNames == <<"weight", "bias">>
NParams == Len(ParamNames)
ThreadSeq == <<"sampler", "learner">>
NThreads == Len(ThreadSeq)
Threads == {ThreadSeq[k] : k \in 1..NThreads}
ThreadNo(t) == CHOOSE k \in 1..NThreads : ThreadSeq[k] = t
Free == "free"
None == 0           \* "p.grad is None" / a None entry of a gradient set
Absent == <<>>      \* the loss does not depend on the parameter
Devices == {"cpu", "cuda"}
Idx == 1..NParams

\* Buffers. A fresh buffer is any buffer nothing refers to; which one is taken
\* does not matter, so each kind of array draws from a pool of its own:
\*   ParamBuf(i)     the storage of parameter i, never reallocated;
\*   GradBuf(i)      a gradient tensor the model allocates for parameter i;
\*   HeldPool(t, i)  host arrays of entry i of a gradient set of caller t;
\*   SnapPool(t, i)  host arrays of entry i of a weight snapshot of caller t.
\* A pool is large enough for every array of its kind that can be alive.
HeldPoolSize == NThreads + 2
SnapPoolSize == 2
ParamBuf(i) == i
GradBuf(i) == NParams + i
HeldBase == 2 * NParams
SnapBase == HeldBase + NThreads * NParams * HeldPoolSize
NBufs == SnapBase + NThreads * NParams * SnapPoolSize
Bufs == 1..NBufs
HeldPool(t, i) ==
    {HeldBase + ((ThreadNo(t) - 1) * NParams + (i - 1)) * HeldPoolSize + k :
        k \in 1..HeldPoolSize}
SnapPool(t, i) ==
    {SnapBase + ((ThreadNo(t) - 1) * NParams + (i - 1)) * SnapPoolSize + k :
        k \in 1..SnapPoolSize}

\* What a batch makes the loss yield for one parameter: no dependence on it,
\* or a gradient proportional to it.
BatchVals == {Absent, <<1>>}
Batches == [Idx -> BatchVals]
NoBatch == [i \in Idx |-> Absent]
\* Content of an array a caller builds itself (aggregated gradients).
CallerGrad == 2
CallerSets == [Idx -> {FALSE, TRUE}] \ {[i \in Idx |-> FALSE]}
W0 == 1             \* initial content of every parameter

VARIABLES device, lock, pc, arg, held, snap, heap, grad, opt, before, want,
          chain, budget

vars == <<device, lock, pc, arg, held, snap, heap, grad, opt, before, want,
          chain, budget>>

\* The policy's model and optimizer state.
P == [heap |-> heap, grad |-> grad, opt |-> opt]

NoRefs == [i \in Idx |-> None]
InitHeap == [b \in Bufs |-> IF b \in Idx THEN W0 ELSE 0]
InitOpt == [i \in Idx |-> [step |-> 0, avg |-> 0]]
InitP == [heap |-> InitHeap, grad |-> NoRefs, opt |-> InitOpt]

\* ------------------------------------------------------- buffers and views
\* Every buffer something still refers to: parameters, stored gradients, and
\* the arrays the callers hold.
Live(g, hd, sn) ==
    (Idx \cup {g[i] : i \in Idx}
         \cup {hd[t][i] : t \in Threads, i \in Idx}
         \cup {sn[t][i] : t \in Threads, i \in Idx}) \ {None}
Used == Live(grad, held, snap)
\* Unreferenced buffers are garbage; their content is forgotten.
Canon(h, live) == [x \in Bufs |-> IF x \in live THEN h[x] ELSE 0]
\* A buffer of the pool that nothing refers to.
FreshIn(pool, used) ==
    CHOOSE b \in pool \ used : \A c \in pool \ used : b <= c
FreshHeld(t) == [i \in Idx |-> FreshIn(HeldPool(t, i), Used)]
FreshSnap(t) == [i \in Idx |-> FreshIn(SnapPool(t, i), Used)]
FreshGrad == [i \in Idx |-> GradBuf(i)]

\* Variant: the CUDA device shares buffers with the host like the CPU device.
TransferSharing(h, src, D, dev, new) ==
    [ref |-> [i \in D |-> src[i]], heap |-> h]

\* tensor.to(device) / tensor.cpu() of the arrays src[i], i \in D, moved
\* between host and device dev: the same tensor on "cpu", a copy (into the
\* fresh buffer new[i]) on "cuda". torch.from_numpy and .numpy() always share
\* the buffer they are given.
Transfer(h, src, D, dev, new) ==
    IF dev = "cpu"
    THEN [ref |-> [i \in D |-> src[i]], heap |-> h]
    ELSE [ref |-> [i \in D |-> new[i]],
          heap |-> [x \in Bufs |->
                      IF \E i \in D : new[i] = x
                      THEN h[src[CHOOSE i \in D : new[i] = x]]
                      ELSE h[x]]]

Min(a, b) == IF a <= b THEN a ELSE b

\* --------------------------------------------- tensor-framework operations
\* optimizer.zero_grad(): every stored gradient is zeroed in place.
ZeroGrad(S) ==
    [S EXCEPT !.heap = [x \in Bufs |->
        IF \E i \in Idx : S.grad[i] = x THEN 0 ELSE S.heap[x]]]

\* d loss / d parameter i for batch b at the current parameters.
LossGrad(S, b, i) == b[i][1] * S.heap[ParamBuf(i)]

\* loss_out.backward(): accumulates into an existing gradient in place,
\* creates the gradient of a parameter that has none; parameters the loss
\* does not depend on are left alone.
Backward(S, b) ==
    LET need == {i \in Idx : b[i] # Absent /\ S.grad[i] = None}
        g2 == [i \in Idx |-> IF i \in need THEN GradBuf(i) ELSE S.grad[i]]
    IN  [S EXCEPT
           !.grad = g2,
           !.heap = [x \in Bufs |->
              LET into == {i \in Idx : b[i] # Absent /\ g2[i] = x}
              IN  IF into = {} THEN S.heap[x]
                  ELSE LET i == CHOOSE j \in into : TRUE
                       IN  (IF i \in need THEN 0 ELSE S.heap[x])
                           + LossGrad(S, b, i)]]

\* extra_grad_process(): the default does nothing to the gradients.
ExtraGradProcess(S) == S

\* optimizer.step() (Adam): parameters without a gradient are skipped; the
\* others advance their step count and running average and are updated in
\* place.
Step(S) ==
    LET o2 == [i \in Idx |->
                 IF S.grad[i] = None THEN S.opt[i]
                 ELSE [step |-> S.opt[i].step + 1,
                       avg |-> S.opt[i].avg + S.heap[S.grad[i]]]]
    IN  [S EXCEPT
           !.opt = o2,
           !.heap = [x \in Bufs |->
              IF x \in Idx /\ S.grad[x] # None
              THEN S.heap[x] - o2[x].avg ELSE S.heap[x]]]

\* Variant: "p.grad += g" where the parameter already has a gradient.
ApplyAssignAccumulating(S, g, dev) ==
    LET D == {i \in 1..Min(Len(g), NParams) : g[i] # None}
        A == {i \in D : S.grad[i] # None}
        c == Transfer(S.heap, g, D \ A, dev, FreshGrad)
    IN  [S EXCEPT
           !.grad = [i \in Idx |-> IF i \in D \ A THEN c.ref[i] ELSE S.grad[i]],
           !.heap = [x \in Bufs |->
              IF \E i \in A : S.grad[i] = x
              THEN c.heap[x] + S.heap[g[CHOOSE i \in A : S.grad[i] = x]]
              ELSE c.heap[x]]]

\* Variant: "p.grad = g" also for a None entry, which clears the gradient.
ApplyAssignClearingAbsent(S, g, dev) ==
    LET D == {i \in 1..Min(Len(g), NParams) : g[i] # None}
        c == Transfer(S.heap, g, D, dev, FreshGrad)
    IN  [S EXCEPT
           !.grad = [i \in Idx |-> IF i \in D THEN c.ref[i] ELSE None],
           !.heap = c.heap]

\* for g, p in zip(gradients, parameters): if g is not None: p.grad = ...
ApplyAssign(S, g, dev) ==
    LET D == {i \in 1..Min(Len(g), NParams) : g[i] # None}
        c == Transfer(S.heap, g, D, dev, FreshGrad)
    IN  [S EXCEPT
           !.grad = [i \in Idx |-> IF i \in D THEN c.ref[i] ELSE S.grad[i]],
           !.heap = c.heap]

\* Variant: the entries are collected in reverse parameter order.
CollectGradsReversed(S, dev, new) ==
    LET D == {i \in Idx : S.grad[i] # None}
        c == Transfer(S.heap, S.grad, D, dev, new)
    IN  [ref |-> [i \in Idx |-> IF NParams + 1 - i \in D
                                 THEN c.ref[NParams + 1 - i] ELSE None],
         heap |-> c.heap]

\* grads.append(p.grad.data.cpu().numpy()) / grads.append(None)
CollectGrads(S, dev, new) ==
    LET D == {i \in Idx : S.grad[i] # None}
        c == Transfer(S.heap, S.grad, D, dev, new)
    IN  [ref |-> [i \in Idx |-> IF i \in D THEN c.ref[i] ELSE None],
         heap |-> c.heap]

\* {k: v.cpu() for k, v in state_dict().items()}
StateDictCpu(S, dev, new) ==
    Transfer(S.heap, [i \in Idx |-> ParamBuf(i)], Idx, dev, new)

\* Variant: each entry is loaded into the next parameter.
LoadStateDictShifted(S, w) ==
    [S EXCEPT !.heap = [x \in Bufs |->
        IF x \in Idx THEN S.heap[w[(x % NParams) + 1]] ELSE S.heap[x]]]

\* load_state_dict(weights): copies each entry into the parameter's storage.
LoadStateDict(S, w) ==
    [S EXCEPT !.heap = [x \in Bufs |->
        IF x \in Idx THEN S.heap[w[x]] ELSE S.heap[x]]]

\* The body of learn_on_batch as one function of the policy state.
LearnOnBatch(S, b) ==
    Step(ExtraGradProcess(Backward(ZeroGrad(S), b)))

\* What can be observed of a policy state: parameter contents, gradient
\* contents (Absent for None) and optimizer state.
Weights(S) == [i \in Idx |-> S.heap[ParamBuf(i)]]
GradVals(S) == [i \in Idx |-> IF S.grad[i] = None THEN Absent
                                                  ELSE <<S.heap[S.grad[i]]>>]
Values(S) == [w |-> Weights(S), g |-> GradVals(S), opt |-> S.opt]
NoValues == Values(InitP)

\* ----------------------------------------------------------------- threads
\* The operations each thread calls: the asynchronous sampler runs the policy,
\* the learner trains it and synchronises its weights.
Ops(t) ==
    IF t = "sampler" THEN {"compute_actions", "get_initial_state"}
    ELSE {"learn_on_batch", "compute_gradients", "apply_gradients",
          "get_weights", "set_weights"}

\* Waiting at "with self.lock:".
LockPcs == {"ca_lock", "lb_lock", "cg_lock", "ag_lock", "gw_lock", "sw_lock"}
\* Inside a "with self.lock:" block, named by the statement to run next.
CaPcs == {"ca_model", "ca_out"}
LbPcs == {"lb_loss", "lb_zero", "lb_backward", "lb_process", "lb_step", "lb_info"}
CgPcs == {"cg_loss", "cg_zero", "cg_backward", "cg_process", "cg_collect"}
AgPcs == {"ag_assign", "ag_step"}
GwPcs == {"gw_copy"}
SwPcs == {"sw_load"}
InsidePcs == CaPcs \cup LbPcs \cup CgPcs \cup AgPcs \cup GwPcs \cup SwPcs
\* Statements that read or write model or optimizer state.
TouchPcs == InsidePcs \cup {"gi_read"}
\* Statements that call into the model, the loss, the tensor framework or an
\* extension point, any of which may raise.
RaisePcs == InsidePcs

Entry(w) ==
    CASE w = "ca_lock" -> "ca_model"
      [] w = "lb_lock" -> "lb_loss"
      [] w = "cg_lock" -> "cg_loss"
      [] w = "ag_lock" -> "ag_assign"
      [] w = "gw_lock" -> "gw_copy"
      [] w = "sw_lock" -> "sw_load"

\* History kept for stating the properties. before[t]: what the policy held
\* when t took the lock for the operation it is in (not kept for
\* learn_on_batch, which nothing here compares with its start). chain[t]: a
\* compute_gradients (kind "cg") or get_weights (kind "gw") by t that no other
\* operation on the policy has followed; want is what learn_on_batch would
\* have left had it been called instead (kind "cg"), or what the policy held
\* when the snapshot was taken (kind "gw").
NoBefore == [v |-> NoValues, ref |-> NoRefs]
NoChain == [kind |-> "none", want |-> NoValues]

\* The operations that change the policy or hand arrays to the caller; a run
\* may make budget more calls of them.
Counted == {"learn_on_batch", "compute_gradients", "apply_gradients",
            "get_weights", "set_weights"}

\* The policy as __init__ leaves it, and callers that hold nothing yet.
Constructed ==
    /\ device \in Devices
    /\ lock = Free
    /\ pc = [t \in Threads |-> "idle"]
    /\ arg = [t \in Threads |-> NoBatch]
    /\ held = [t \in Threads |-> NoRefs]
    /\ snap = [t \in Threads |-> NoRefs]
    /\ heap = InitHeap
    /\ grad = NoRefs
    /\ opt = InitOpt
    /\ before = [t \in Threads |-> NoBefore]
    /\ want = [t \in Threads |-> NoValues]
    /\ chain = [t \in Threads |-> NoChain]

Init == Constructed /\ budget = MaxCalls
LiveInit == Constructed /\ budget = MaxLiveCalls

\* Variants: the lock is not released, the lock is not waited for.
LockKeptOnReturn(t) == lock
LockKeptOnRaise(t) == lock
AcquireWithoutWaiting(t) == TRUE

\* The "with self.lock:" block is left, normally or by an exception.
LockAfterReturn(t) == Free
LockAfterRaise(t) == Free

\* lock.acquire() at the head of a "with self.lock:" block.
CanAcquire(t) == lock = Free

\* t goes to statement l of the operation it is in; S is the policy state.
Goto(t, l, S, hd, sn) ==
    /\ pc' = [pc EXCEPT ![t] = l]
    /\ held' = hd
    /\ snap' = sn
    /\ grad' = S.grad
    /\ opt' = S.opt
    /\ heap' = Canon(S.heap, Live(S.grad, hd, sn))
    /\ UNCHANGED <<device, lock, arg, before, want, chain, budget>>

\* t returns from its operation, leaving the "with" block.
Return(t, S, hd, sn, ch) ==
    /\ pc' = [pc EXCEPT ![t] = "idle"]
    /\ lock' = LockAfterReturn(t)
    /\ arg' = [arg EXCEPT ![t] = NoBatch]
    /\ held' = hd
    /\ snap' = sn
    /\ grad' = S.grad
    /\ opt' = S.opt
    /\ heap' = Canon(S.heap, Live(S.grad, hd, sn))
    /\ before' = [before EXCEPT ![t] = NoBefore]
    /\ want' = [want EXCEPT ![t] = NoValues]
    /\ chain' = [chain EXCEPT ![t] = ch]
    /\ UNCHANGED <<device, budget>>

Call(t, op, w, a) ==
    /\ pc[t] = "idle"
    /\ op \in Ops(t)
    /\ op \in Counted => budget > 0
    /\ budget' = IF op \in Counted THEN budget - 1 ELSE budget
    /\ pc' = [pc EXCEPT ![t] = w]
    /\ arg' = [arg EXCEPT ![t] = a]
    /\ UNCHANGED <<device, lock, held, snap, heap, grad, opt, before, want, chain>>

Acquire(t) ==
    /\ pc[t] \in LockPcs
    /\ CanAcquire(t)
    /\ lock' = t
    /\ pc' = [pc EXCEPT ![t] = Entry(pc[t])]
    /\ before' = [before EXCEPT ![t] =
                  IF pc[t] = "lb_lock" THEN NoBefore
                  ELSE [v |-> Values(P), ref |-> grad]]
    /\ want' = [want EXCEPT ![t] =
                  IF pc[t] = "cg_lock"
                  THEN Values(LearnOnBatch(P, arg[t]))
                  ELSE NoValues]
    /\ chain' = [u \in Threads |->
                  IF /\ u = t
                     /\ \/ pc[t] = "ag_lock" /\ chain[t].kind = "cg"
                        \/ pc[t] = "sw_lock" /\ chain[t].kind = "gw"
                  THEN chain[t] ELSE NoChain]
    /\ UNCHANGED <<device, arg, held, snap, heap, grad, opt, budget>>

\* An exception leaves the "with self.lock:" block from statement pc[t].
Raise(t) ==
    /\ pc[t] \in RaisePcs
    /\ pc' = [pc EXCEPT ![t] = "idle"]
    /\ lock' = LockAfterRaise(t)
    /\ arg' = [arg EXCEPT ![t] = NoBatch]
    /\ before' = [before EXCEPT ![t] = NoBefore]
    /\ want' = [want EXCEPT ![t] = NoValues]
    /\ chain' = [chain EXCEPT ![t] = NoChain]
    /\ UNCHANGED <<device, held, snap, heap, grad, opt, budget>>

\* --------------------------------------------------------- compute_actions
\* self._model({"obs": ob}, state_batches) under torch.no_grad().
NoGradForward(S) == S

ca_call(t) == Call(t, "compute_actions", "ca_lock", NoBatch)

ca_model(t) ==
    /\ pc[t] = "ca_model"
    /\ Goto(t, "ca_out", NoGradForward(P), held, snap)

\* action_dist.sample(), extra_action_out(model_out), return.
ca_out(t) ==
    /\ pc[t] = "ca_out"
    /\ Return(t, P, held, snap, NoChain)

\* ---------------------------------------------------------- learn_on_batch
lb_call(t) ==
    /\ \E b \in Batches : Call(t, "learn_on_batch", "lb_lock", b)

lb_loss(t) ==
    /\ pc[t] = "lb_loss"
    /\ Goto(t, "lb_zero", P, held, snap)

lb_zero(t) ==
    /\ pc[t] = "lb_zero"
    /\ Goto(t, "lb_backward", ZeroGrad(P), held, snap)

lb_backward(t) ==
    /\ pc[t] = "lb_backward"
    /\ Goto(t, "lb_process", Backward(P, arg[t]), held, snap)

lb_process(t) ==
    /\ pc[t] = "lb_process"
    /\ Goto(t, "lb_step", ExtraGradProcess(P), held, snap)

lb_step(t) ==
    /\ pc[t] = "lb_step"
    /\ Goto(t, "lb_info", Step(P), held, snap)

\* extra_grad_info(batch_tensors), return.
lb_info(t) ==
    /\ pc[t] = "lb_info"
    /\ Return(t, P, held, snap, NoChain)

\* ------------------------------------------------------- compute_gradients
cg_call(t) == \E b \in Batches : Call(t, "compute_gradients", "cg_lock", b)

cg_loss(t) ==
    /\ pc[t] = "cg_loss"
    /\ Goto(t, "cg_zero", P, held, snap)

cg_zero(t) ==
    /\ pc[t] = "cg_zero"
    /\ Goto(t, "cg_backward", ZeroGrad(P), held, snap)

cg_backward(t) ==
    /\ pc[t] = "cg_backward"
    /\ Goto(t, "cg_process", Backward(P, arg[t]), held, snap)

cg_process(t) ==
    /\ pc[t] = "cg_process"
    /\ Goto(t, "cg_collect", ExtraGradProcess(P), held, snap)

\* Builds grads, calls extra_grad_info and returns grads to the caller.
cg_collect(t) ==
    /\ pc[t] = "cg_collect"
    /\ LET c == CollectGrads(P, device, FreshHeld(t))
       IN  Return(t, [P EXCEPT !.heap = c.heap],
                  [held EXCEPT ![t] = c.ref], snap,
                  [kind |-> "cg", want |-> want[t]])

\* --------------------------------------------------------- apply_gradients
\* Called with the gradient set the caller holds from compute_gradients.
ag_call_returned(t) ==
    /\ Call(t, "apply_gradients", "ag_lock", NoBatch)

\* Called with arrays the caller has built itself; c says which entries are
\* arrays and which are None.
ag_call_built(t) ==
    /\ pc[t] = "idle"
    /\ "apply_gradients" \in Ops(t)
    /\ budget > 0
    /\ budget' = budget - 1
    /\ \E c \in CallerSets :
         LET D == {i \in Idx : c[i]}
             r == [i \in Idx |-> IF c[i] THEN FreshHeld(t)[i] ELSE None]
             hd == [held EXCEPT ![t] = r]
             h == [x \in Bufs |-> IF \E i \in D : r[i] = x THEN CallerGrad
                                                          ELSE heap[x]]
         IN  /\ held' = hd
             /\ heap' = Canon(h, Live(grad, hd, snap))
    /\ pc' = [pc EXCEPT ![t] = "ag_lock"]
    /\ chain' = [chain EXCEPT ![t] = NoChain]
    /\ UNCHANGED <<device, lock, arg, snap, grad, opt, before, want>>

ag_assign(t) ==
    /\ pc[t] = "ag_assign"
    /\ Goto(t, "ag_step", ApplyAssign(P, held[t], device), held, snap)

ag_step(t) ==
    /\ pc[t] = "ag_step"
    /\ Return(t, Step(P), held, snap, NoChain)

\* ------------------------------------------------ get_weights, set_weights
gw_call(t) == Call(t, "get_weights", "gw_lock", NoBatch)

gw_copy(t) ==
    /\ pc[t] = "gw_copy"
    /\ LET c == StateDictCpu(P, device, FreshSnap(t))
       IN  Return(t, [P EXCEPT !.heap = c.heap], held,
                  [snap EXCEPT ![t] = c.ref],
                  [kind |-> "gw", want |-> before[t].v])

\* Called with the snapshot the caller holds.
sw_call(t) ==
    /\ snap[t] # NoRefs
    /\ Call(t, "set_weights", "sw_lock", NoBatch)

sw_load(t) ==
    /\ pc[t] = "sw_load"
    /\ Return(t, LoadStateDict(P, snap[t]), held, snap, chain[t])

\* ------------------------------------------------------- get_initial_state
\* No "with self.lock:" here: the model is read straight away.
gi_call(t) == Call(t, "get_initial_state", "gi_read", NoBatch)

\* [s.numpy() for s in self._model.state_init()]
gi_read(t) ==
    /\ pc[t] = "gi_read"
    /\ pc' = [pc EXCEPT ![t] = "idle"]
    /\ UNCHANGED <<device, lock, arg, held, snap, heap, grad, opt, before, want,
                   chain, budget>>

\* ------------------------------------------------------------ specification
Calls(t) ==
    \/ ca_call(t) \/ lb_call(t) \/ cg_call(t) \/ ag_call_returned(t)
    \/ ag_call_built(t) \/ gw_call(t) \/ sw_call(t) \/ gi_call(t)

\* The steps of a started operation once it has the lock (or needs none).
Run(t) ==
    \/ ca_model(t) \/ ca_out(t)
    \/ lb_loss(t) \/ lb_zero(t) \/ lb_backward(t) \/ lb_process(t)
    \/ lb_step(t) \/ lb_info(t)
    \/ cg_loss(t) \/ cg_zero(t) \/ cg_backward(t) \/ cg_process(t)
    \/ cg_collect(t)
    \/ ag_assign(t) \/ ag_step(t)
    \/ gw_copy(t) \/ sw_load(t) \/ gi_read(t)
    \/ Raise(t)

Next == \E t \in Threads : Calls(t) \/ Acquire(t) \/ Run(t)

Spec == Init /\ [][Next]_vars

\* Threads are scheduled fairly: a running operation keeps being run, and a
\* thread that finds the lock free again and again eventually gets it.
LiveSpec ==
    LiveInit /\ [][Next]_vars /\ \A t \in Threads : WF_vars(Run(t)) /\ SF_vars(Acquire(t))

\* ================================================================ properties
\* t leaves the operation whose statements are `from`, by return or exception.
Exits(t, from) == pc[t] \in from /\ pc'[t] = "idle"

\* C1: at most one thread at a time is at a statement that reads or writes
\* model or optimizer state, all seven operations included.
C1_OneThreadTouchesModel ==
    Cardinality({t \in Threads : pc[t] \in TouchPcs}) <= 1

\* C2: the lock is held only by a thread inside a "with self.lock:" block, so
\* it is free whenever no operation is in progress, also after an operation
\* has ended with an exception, and a waiting thread can then take it.
C2_LockReleasedOnEveryExit ==
    /\ \A t \in Threads : lock = t => pc[t] \in InsidePcs
    /\ (\A t \in Threads : pc[t] \notin InsidePcs) =>
           \A u \in Threads : pc[u] \in LockPcs => CanAcquire(u)

\* The one training call made so far has computed gradients but has neither
\* stepped the optimizer nor returned a gradient set, so it ended with an
\* exception after backward; the sampler has taken the lock since.
C2_Witness ==
    /\ budget = MaxCalls - 1
    /\ pc["learner"] = "idle"
    /\ grad # NoRefs
    /\ opt = InitOpt
    /\ held["learner"] = NoRefs
    /\ lock = "sampler"

\* C3: when apply_gradients returns after applying the gradient set that the
\* caller's compute_gradients(batch) returned, with no other operation on the
\* policy in between, parameters, gradients and optimizer state are what
\* learn_on_batch(batch) would have left from the state compute_gradients
\* started in.
C3_ComputeThenApplyIsLearn ==
    [][\A t \in Threads :
          ag_step(t) /\ chain[t].kind = "cg"
              => Values(P') = chain[t].want]_vars

\* apply_gradients is about to step with the set compute_gradients returned,
\* one entry of it None, and the step changes the parameters.
C3_Witness ==
    \E t \in Threads :
        /\ pc[t] = "ag_step"
        /\ chain[t].kind = "cg"
        /\ chain[t].want.w # Weights(P)
        /\ \E i \in Idx : held[t][i] = None

\* C4: when apply_gradients returns, a parameter whose entry was None has the
\* gradient tensor and gradient content it had before the call, every other
\* parameter has the content of its own entry, and the optimizer has stepped
\* exactly once (Adam counts one step for each parameter that has a gradient).
C4_AbsentEntriesLeftAlone ==
    [][\A t \in Threads :
          ag_step(t) =>
              \A i \in Idx :
                  /\ held[t][i] = None =>
                        /\ grad'[i] = before[t].ref[i]
                        /\ GradVals(P')[i] = before[t].v.g[i]
                  /\ held[t][i] # None =>
                        /\ grad'[i] # None
                        /\ heap'[grad'[i]] = heap[held[t][i]]
                  /\ opt'[i].step = before[t].v.opt[i].step
                                    + (IF grad'[i] = None THEN 0 ELSE 1)]_vars

\* apply_gradients has assigned a set with a None entry for a parameter that
\* has a stored gradient, and an array for another parameter.
C4_Witness ==
    \E t \in Threads :
        /\ pc[t] = "ag_step"
        /\ \E i, j \in Idx :
              /\ held[t][i] = None
              /\ before[t].ref[i] # None
              /\ held[t][j] # None

\* C5 as stated: no step of any operation changes the content of an array of
\* a gradient set a caller holds (one it passed to apply_gradients or got from
\* compute_gradients).
C5_CallerGradientsNeverChange ==
    [][\A t \in Threads : \A i \in Idx :
          held[t][i] # None /\ held'[t][i] = held[t][i]
              => heap'[held[t][i]] = heap[held[t][i]]]_vars

\* C5 amended: an array of a gradient set a caller holds changes only on the
\* CPU device and only while it is the stored gradient of a parameter (the
\* set is shared with the model there, not copied); on the CUDA device it
\* never changes.
C5_CallerGradientsChangeOnlyAsViews ==
    [][\A t \in Threads : \A i \in Idx :
          /\ held[t][i] # None
          /\ held'[t][i] = held[t][i]
          /\ heap'[held[t][i]] # heap[held[t][i]]
          => /\ device = "cpu"
             /\ \E j \in Idx : grad[j] = held[t][i]]_vars

\* On the CUDA device a later operation has zeroed the stored gradient and the
\* caller's gradient set still has its content.
C5_Witness ==
    \E t \in Threads : \E i \in Idx :
        /\ device = "cuda"
        /\ pc[t] \in {"lb_backward", "cg_backward"}
        /\ held[t][i] # None
        /\ grad[i] # None
        /\ heap[held[t][i]] # 0
        /\ heap[grad[i]] = 0

\* C6: no step of any operation changes the content of a weight snapshot a
\* caller holds.
C6_SnapshotKeepsItsValues ==
    [][\A t \in Threads : \A i \in Idx :
          snap[t][i] # None /\ snap'[t] = snap[t]
              => heap'[snap[t][i]] = heap[snap[t][i]]]_vars

\* C7: when set_weights returns after loading the snapshot that the caller's
\* get_weights returned, with no other operation on the policy in between,
\* parameters, gradients and optimizer state are what they were before
\* get_weights and before set_weights, and loading the snapshot once more
\* would again change nothing.
C7_SetGetWeightsIsIdentity ==
    [][\A t \in Threads :
          sw_load(t) /\ chain[t].kind = "gw" =>
              /\ Values(P') = chain[t].want
              /\ Values(P') = before[t].v
              /\ Weights(LoadStateDict(P', snap'[t])) = Weights(P')]_vars

\* set_weights is about to load a copied (CUDA) snapshot just taken of
\* parameters that training has made differ from one another.
C7_Witness ==
    \E t \in Threads :
        /\ pc[t] = "sw_load"
        /\ chain[t].kind = "gw"
        /\ device = "cuda"
        /\ \E i, j \in Idx : heap[ParamBuf(i)] # heap[ParamBuf(j)]

\* C8: when compute_actions ends (by return or exception), parameters,
\* gradient tensors, gradient contents and optimizer state are what they were
\* when it took the lock, whatever the other thread did meanwhile.
C8_ComputeActionsMutatesNothing ==
    [][\A t \in Threads :
          Exits(t, CaPcs) => /\ Values(P') = before[t].v
                             /\ grad' = before[t].ref]_vars

\* compute_actions is about to return on a trained policy with stored
\* gradients while the other thread waits for the lock.
C8_Witness ==
    \E t, u \in Threads :
        /\ pc[t] = "ca_out"
        /\ pc[u] \in LockPcs
        /\ grad # NoRefs
        /\ opt # InitOpt

\* C9: compute_gradients never changes parameters or optimizer state; when it
\* returns, the stored gradients are those learn_on_batch would have left
\* (same loss, zero_grad, backward, extra_grad_process), and the result has
\* one entry per parameter in parameter order, None exactly where the
\* parameter has no gradient and the gradient's content elsewhere.
C9_ComputeGradientsStopsBeforeStep ==
    [][\A t \in Threads :
          /\ Exits(t, CgPcs) => /\ Weights(P') = before[t].v.w
                                /\ opt' = before[t].v.opt
          /\ cg_collect(t) =>
                /\ GradVals(P') = want[t].g
                /\ Len(held'[t]) = NParams
                /\ \A i \in Idx :
                      /\ held'[t][i] = None <=> grad'[i] = None
                      /\ grad'[i] # None =>
                            heap'[held'[t][i]] = heap'[grad'[i]]]_vars

\* compute_gradients is about to return a set with a None entry and an array,
\* having overwritten the gradients stored before.
C9_Witness ==
    \E t \in Threads :
        /\ pc[t] = "cg_collect"
        /\ GradVals(P) # before[t].v.g
        /\ \E i, j \in Idx : grad[i] = None /\ grad[j] # None
        /\ opt # InitOpt

====
